---- MODULE Spec2Model ----
(***************************************************************************)
(* Model of msvbp2edl: the export of a Microsoft Video Editor project to   *)
(* an Edit Decision List.  Two implementations are modelled side by side:  *)
(* the script main.py (fixed FRAME_RATE) and the class MsPhotosDb of       *)
(* ms_photos.py (frame_rate given to the constructor).                     *)
(*                                                                         *)
(* Representation.                                                         *)
(*  - A Python str is a sequence of one-character strings.                 *)
(*  - A Python int holding a tick count is unbounded; it is kept as the    *)
(*    pair [q, r] with value q * ns + r and 0 <= r < ns, which is          *)
(*    (nanos // ns, nanos % ns) with Python's floor division.  24 hours    *)
(*    are 864 000 000 000 ticks, more than a 32-bit integer holds.         *)
(*  - A Python float is an IEEE-754 binary64.  The fractional part of a    *)
(*    float is kept as its exact binary expansion (a sequence of bits);    *)
(*    division and multiplication round to 53 significant bits, ties to    *)
(*    even, as the hardware does.                                          *)
(***************************************************************************)
EXTENDS Integers, Sequences, FiniteSets, TLC

VARIABLES
    \* ---- the encoder taken alone (SpecEncode)
    nanos,          \* the argument of _nano100_to_time
    ret_main,       \* what main._nano100_to_time returned, or NotCalled
    ret_db,         \* what MsPhotosDb._nano100_to_time returned, or NotCalled
    \* ---- the input shared by the two implementations
    frame_rate,     \* MsPhotosDb.frame_rate
    store,          \* album names that have a project row in the database
    project_name,   \* the name given to generate / export_edl
    project_data,   \* project_data["Project"]["Cards"] of that project
    \* ---- main.py: generate and _convert
    m_pc, m_i, m_lines, m_index, m_master_time, m_file, m_error,
    \* ---- ms_photos.py: MsPhotosDb.export_edl and MsPhotosDb._convert
    d_pc, d_i, d_lines, d_index, d_master_time, d_file, d_error

inputVars == <<frame_rate, store, project_name, project_data>>
encVars == <<nanos, ret_main, ret_db>>
mainVars == <<m_pc, m_i, m_lines, m_index, m_master_time, m_file, m_error>>
dbVars == <<d_pc, d_i, d_lines, d_index, d_master_time, d_file, d_error>>
vars == <<encVars, inputVars, mainVars, dbVars>>

(***************************************************************************)
(* Program constants.                                                      *)
(***************************************************************************)
ns == 10000000

FRAME_RATE == 30

DefaultFrameRate == 30

SecondsPerDay == 86400

MantissaBits == 53

(***************************************************************************)
(* Python int arithmetic on tick counts.                                   *)
(***************************************************************************)
Tick(q, r) == [q |-> q, r |-> r]

IntToTick(n) == Tick(n \div ns, n % ns)

TickAdd(a, b) == Tick(a.q + b.q + ((a.r + b.r) \div ns), (a.r + b.r) % ns)

TickAbs(a) ==
    IF a.q >= 0 THEN a
    ELSE IF a.r = 0 THEN Tick(-a.q, 0) ELSE Tick(-a.q - 1, ns - a.r)

TickIsNegative(a) == a.q < 0

(***************************************************************************)
(* Python string formatting.                                               *)
(***************************************************************************)
DigitChar(d) == <<"0", "1", "2", "3", "4", "5", "6", "7", "8", "9">>[d + 1]

RECURSIVE NatDigits(_)
NatDigits(n) == IF n < 10 THEN <<DigitChar(n)>>
                ELSE NatDigits(n \div 10) \o <<DigitChar(n % 10)>>

\* "%d" % n
FormatD(n) == IF n < 0 THEN <<"-">> \o NatDigits(-n) ELSE NatDigits(n)

RECURSIVE Zeros(_)
Zeros(k) == IF k <= 0 THEN <<>> ELSE <<"0">> \o Zeros(k - 1)

\* "%0wd" % n and f"{n:0w}": zero padding between the sign and the digits
FormatZeroPad(n, w) ==
    IF n < 0 THEN <<"-">> \o Zeros(w - 1 - Len(NatDigits(-n))) \o NatDigits(-n)
    ELSE Zeros(w - Len(NatDigits(n))) \o NatDigits(n)

\* str(timedelta(seconds=secs)): timedelta normalises to days and
\* 0 <= seconds < 86400, and prints "[D day[s], ][H]H:MM:SS"
TimedeltaStr(secs) ==
    LET days == secs \div SecondsPerDay
        rest == secs % SecondsPerDay
        hh == rest \div 3600
        mm == (rest \div 60) % 60
        ss == rest % 60
        hms == FormatD(hh) \o <<":">> \o FormatZeroPad(mm, 2) \o <<":">> \o FormatZeroPad(ss, 2)
        plural == IF days = 1 \/ days = -1 THEN <<>> ELSE <<"s">>
    IN  IF days # 0
        THEN FormatD(days) \o <<" ", "d", "a", "y">> \o plural \o <<",", " ">> \o hms
        ELSE hms

(***************************************************************************)
(* IEEE-754 binary64 arithmetic, as much of it as the frame computation    *)
(* uses.  A fraction in [0, 1) is a sequence of bits, most significant     *)
(* first; long division and multiplication work on limbs of 7 bits.        *)
(***************************************************************************)
RECURSIVE BitLen(_)
BitLen(n) == IF n = 0 THEN 0 ELSE 1 + BitLen(n \div 2)

Pow2(e) == <<1, 2, 4, 8, 16, 32, 64>>[e + 1]

Max(S) == CHOOSE x \in S : \A y \in S : y <= x

Min(S) == CHOOSE x \in S : \A y \in S : x <= y

\* the first k limbs of rem / ns and the remainder left after them
RECURSIVE LongDiv(_, _)
LongDiv(rem, k) ==
    IF k = 0 THEN [limbs |-> <<>>, rem |-> rem]
    ELSE LET rest == LongDiv((128 * rem) % ns, k - 1)
         IN  [limbs |-> <<(128 * rem) \div ns>> \o rest.limbs, rem |-> rest.rem]

BitsOfLimbs(limbs) ==
    [i \in 1..(7 * Len(limbs)) |->
        (limbs[((i - 1) \div 7) + 1] \div Pow2(6 - ((i - 1) % 7))) % 2]

\* the limbs of bits, padded with zero bits to whole limbs
LimbsOfBits(bits) ==
    LET k == (Len(bits) + 6) \div 7
        bit(i) == IF i <= Len(bits) THEN bits[i] ELSE 0
        b(j, e) == bit(7 * (j - 1) + e)
    IN  [j \in 1..k |->
            64 * b(j, 1) + 32 * b(j, 2) + 16 * b(j, 3) + 8 * b(j, 4)
            + 4 * b(j, 5) + 2 * b(j, 6) + b(j, 7)]

AllZero(bits) == \A i \in 1..Len(bits) : bits[i] = 0

AllOne(bits) == \A i \in 1..Len(bits) : bits[i] = 1

\* bits + one unit in the last place (not all ones)
Increment(bits) ==
    LET j == Max({i \in 1..Len(bits) : bits[i] = 0})
    IN  [i \in 1..Len(bits) |-> IF i < j THEN bits[i] ELSE IF i = j THEN 1 ELSE 0]

\* Round int.bits (followed by more when sticky) to `keep` fraction bits,
\* to nearest, ties to even.  carry: the rounding reached the next integer.
RoundNearestEven(intOdd, bits, keep, sticky) ==
    IF Len(bits) <= keep THEN [bits |-> bits, carry |-> FALSE]
    ELSE LET kept == SubSeq(bits, 1, keep)
             guard == bits[keep + 1]
             rest == sticky \/ ~AllZero(SubSeq(bits, keep + 2, Len(bits)))
             odd == IF keep > 0 THEN kept[keep] = 1 ELSE intOdd
             up == guard = 1 /\ (rest \/ odd)
         IN  IF ~up THEN [bits |-> kept, carry |-> FALSE]
             ELSE IF AllOne(kept) THEN [bits |-> <<>>, carry |-> TRUE]
             ELSE [bits |-> Increment(kept), carry |-> FALSE]

\* modf(a / ns)[0] for a tick count a >= 0: the fractional part of the
\* correctly rounded quotient.  The integer part a.q takes BitLen(a.q) of
\* the 53 mantissa bits; the quotient's fraction is cut after the others.
FracOfQuotient(a) ==
    IF a.r = 0 THEN <<>>
    ELSE LET lead == Min({i \in 1..28 :
                            BitsOfLimbs(LongDiv(a.r, 4).limbs)[i] = 1}) - 1
             keep == IF a.q > 0 THEN MantissaBits - BitLen(a.q)
                     ELSE lead + MantissaBits
             d == LongDiv(a.r, (keep \div 7) + 2)
         IN  RoundNearestEven(a.q % 2 = 1, BitsOfLimbs(d.limbs), keep, d.rem # 0).bits

\* rate * limbs, exactly: the integer part and the fraction limbs
RECURSIVE TimesSmall(_, _, _)
TimesSmall(rate, limbs, carry) ==
    IF limbs = <<>> THEN [int |-> carry, limbs |-> <<>>]
    ELSE LET n == Len(limbs)
             v == rate * limbs[n] + carry
             hi == TimesSmall(rate, SubSeq(limbs, 1, n - 1), v \div 128)
         IN  [int |-> hi.int, limbs |-> hi.limbs \o <<v % 128>>]

\* int(rate * f) for the float f = 0.bits: the exact product rounded to 53
\* significant bits, then truncated towards zero.
IntOfProduct(rate, bits) ==
    LET p == TimesSmall(rate, LimbsOfBits(bits), 0)
        pbits == BitsOfLimbs(p.limbs)
    IN  IF AllZero(pbits) THEN p.int
        ELSE LET keep == IF p.int > 0 THEN MantissaBits - BitLen(p.int)
                         ELSE Min({i \in 1..Len(pbits) : pbits[i] = 1}) - 1 + MantissaBits
             IN  IF RoundNearestEven(p.int % 2 = 1, pbits, keep, FALSE).carry
                 THEN p.int + 1 ELSE p.int

\* int(rate * modf(nanos / ns)[0]); a negative quotient has a negative
\* fractional part and int() truncates towards zero
FrameOf(rate, a) ==
    IF TickIsNegative(a) THEN -IntOfProduct(rate, FracOfQuotient(TickAbs(a)))
    ELSE IntOfProduct(rate, FracOfQuotient(a))

(***************************************************************************)
(* The Timecode Encoder.                                                   *)
(***************************************************************************)
\* the bug of leaving out the leading zero of a one-digit hour
PadHours_Never(ret) == ret

\* ret = str(timedelta(seconds=nanos // ns)); if len(ret) < 8: ret = f"0{ret}"
PadHours(ret) == IF Len(ret) < 8 THEN <<"0">> \o ret ELSE ret

\* f"{ret}:{frame:02}"
JoinFrame(ret, frame) == ret \o <<":">> \o FormatZeroPad(frame, 2)

\* main._nano100_to_time
main_nano100_to_time(a) ==
    JoinFrame(PadHours(TimedeltaStr(a.q)), FrameOf(FRAME_RATE, a))

\* MsPhotosDb._nano100_to_time
MsPhotosDb_nano100_to_time(rate, a) ==
    JoinFrame(PadHours(TimedeltaStr(a.q)), FrameOf(rate, a))

(***************************************************************************)
(* Bounds of the model.                                                    *)
(***************************************************************************)
MaxCards == 2

MaxFrameRate == 99

(***************************************************************************)
(* Inputs.  A card is project_data["Project"]["Cards"][i] flattened to the *)
(* three values _convert reads; a key the JSON lacks is not in its DOMAIN. *)
(***************************************************************************)
Demo == <<"D", "e", "m", "o">>

Other == <<"O", "l", "d">>

Names == {Demo, Other}

Card(url, start, dur) ==
    [url |-> url, idealAssetStartTime |-> start, idealDuration |-> dur]

Cards ==
    { Card(<<"a">>, Tick(0, 0), Tick(1, 0)),              \* 1 s from 0
      Card(<<"b">>, Tick(4, 1000000), Tick(0, 333333)),   \* from 4.1 s
      Card(<<"c">>, Tick(3599, 5000000), Tick(86400, 0)), \* 24 hours long
      Card(<<"n">>, Tick(2, 0), Tick(-1, 0)),             \* negative duration
      [idealAssetStartTime |-> Tick(0, 0), idealDuration |-> Tick(1, 0)],
      [url |-> <<"s">>, idealDuration |-> Tick(1, 0)],
      [url |-> <<"d">>, idealAssetStartTime |-> Tick(0, 0)] }

RECURSIVE SeqsUpTo(_, _)
SeqsUpTo(S, n) ==
    IF n = 0 THEN {<<>>}
    ELSE LET shorter == SeqsUpTo(S, n - 1)
         IN  shorter \cup {Append(p, c) : p \in {x \in shorter : Len(x) = n - 1}, c \in S}

FrameRates == {DefaultFrameRate, 25}

EncodeSeconds == {0, 1, 4, 59, 3600, 35999, 36000, 86399, 86400, 90061, 864000}

EncodeRemainders == {0, 1, 30, 333333, 1000000, 3000000, 5000000, 9999999}

NoLines == <<>>

NoFile == [opened |-> FALSE, text |-> <<>>]

(***************************************************************************)
(* main.py: generate and _convert.                                         *)
(***************************************************************************)
\* card[...]["url"], card[...]["idealAssetStartTime"], card["idealDuration"]
\* each raise KeyError on a missing key
HasFields(card) ==
    {"url", "idealAssetStartTime", "idealDuration"} \subseteq DOMAIN card

\* "\n".join(lines)
RECURSIVE JoinLines(_)
JoinLines(lines) ==
    IF lines = <<>> THEN <<>>
    ELSE IF Len(lines) = 1 THEN lines[1]
    ELSE lines[1] \o <<"\n">> \o JoinLines(Tail(lines))

main_header(name) ==
    << <<"T", "I", "T", "L", "E", ":", " ">> \o name,
       <<"F", "C", "M", ":", " ", "N", "O", "N", "-", "D", "R", "O", "P", " ",
         "F", "R", "A", "M", "E">>,
       <<>> >>

main_times(card, master_time) ==
    main_nano100_to_time(card.idealAssetStartTime) \o <<" ">>
    \o main_nano100_to_time(TickAdd(card.idealAssetStartTime, card.idealDuration)) \o <<" ">>
    \o main_nano100_to_time(master_time) \o <<" ">>
    \o main_nano100_to_time(TickAdd(master_time, card.idealDuration))

\* the bug of leaving out the blank line that ends a block
main_block_NoBlank(index, card, master_time) ==
    << FormatZeroPad(index, 3) \o <<" ", " ", "A", "X", " ", " ", "V", " ", " ", "C", " ", " ">>
           \o main_times(card, master_time),
       FormatZeroPad(index, 3) \o <<" ", " ", "A", "X", " ", " ", "A", " ", " ", "C", " ", " ">>
           \o main_times(card, master_time),
       <<"*", " ", "F", "R", "O", "M", " ", "C", "L", "I", "P", " ", "N", "A", "M", "E", ":", " ">>
           \o card.url >>

\* the bug of appending the audio track before the video track
main_block_AudioFirst(index, card, master_time) ==
    << FormatZeroPad(index, 3) \o <<" ", " ", "A", "X", " ", " ", "A", " ", " ", "C", " ", " ">>
           \o main_times(card, master_time),
       FormatZeroPad(index, 3) \o <<" ", " ", "A", "X", " ", " ", "V", " ", " ", "C", " ", " ">>
           \o main_times(card, master_time),
       <<"*", " ", "F", "R", "O", "M", " ", "C", "L", "I", "P", " ", "N", "A", "M", "E", ":", " ">>
           \o card.url,
       <<>> >>

main_block(index, card, master_time) ==
    << FormatZeroPad(index, 3) \o <<" ", " ", "A", "X", " ", " ", "V", " ", " ", "C", " ", " ">>
           \o main_times(card, master_time),
       FormatZeroPad(index, 3) \o <<" ", " ", "A", "X", " ", " ", "A", " ", " ", "C", " ", " ">>
           \o main_times(card, master_time),
       <<"*", " ", "F", "R", "O", "M", " ", "C", "L", "I", "P", " ", "N", "A", "M", "E", ":", " ">>
           \o card.url,
       <<>> >>

\* the bug of not testing the fetched row against None
MainGenerate_NoCheck ==
    /\ m_pc = "generate"
    /\ m_pc' = "convert"
    /\ UNCHANGED <<m_i, m_lines, m_index, m_master_time, m_file, m_error>>
    /\ UNCHANGED <<encVars, inputVars, dbVars>>

\* generate: the lookup; no row raises, a row leads to the call of _convert
MainGenerate ==
    /\ m_pc = "generate"
    /\ IF project_name \notin store
       THEN m_pc' = "failed" /\ m_error' = "Project not found in database"
       ELSE m_pc' = "convert" /\ m_error' = m_error
    /\ UNCHANGED <<m_i, m_lines, m_index, m_master_time, m_file>>
    /\ UNCHANGED <<encVars, inputVars, dbVars>>

\* the bug of starting the record position at zero
MainConvertBegin_ZeroStart ==
    /\ m_pc = "convert"
    /\ m_lines' = main_header(project_name)
    /\ m_index' = 1
    /\ m_master_time' = Tick(0, 0)
    /\ m_i' = 1
    /\ m_pc' = "loop"
    /\ UNCHANGED <<m_file, m_error>>
    /\ UNCHANGED <<encVars, inputVars, dbVars>>

\* _convert, up to the loop
MainConvertBegin ==
    /\ m_pc = "convert"
    /\ m_lines' = main_header(project_name)
    /\ m_index' = 1
    /\ m_master_time' = IntToTick(FRAME_RATE)
    /\ m_i' = 1
    /\ m_pc' = "loop"
    /\ UNCHANGED <<m_file, m_error>>
    /\ UNCHANGED <<encVars, inputVars, dbVars>>

\* _convert, one iteration of the loop over the cards
MainConvertCard ==
    /\ m_pc = "loop"
    /\ m_i <= Len(project_data)
    /\ LET card == project_data[m_i]
       IN  IF ~HasFields(card)
           THEN /\ m_pc' = "failed"
                /\ m_error' = "KeyError"
                /\ UNCHANGED <<m_i, m_lines, m_index, m_master_time>>
           ELSE /\ m_lines' = m_lines \o main_block(m_index, card, m_master_time)
                /\ m_index' = m_index + 1
                /\ m_master_time' = TickAdd(m_master_time, card.idealDuration)
                /\ m_i' = m_i + 1
                /\ UNCHANGED <<m_pc, m_error>>
    /\ UNCHANGED m_file
    /\ UNCHANGED <<encVars, inputVars, dbVars>>

\* the bug of writing the target inside the loop
MainConvertWrite_InLoop ==
    /\ m_pc = "loop"
    /\ m_file' = [opened |-> TRUE, text |-> JoinLines(m_lines)]
    /\ m_pc' = IF m_i > Len(project_data) THEN "done" ELSE "loop"
    /\ UNCHANGED <<m_i, m_lines, m_index, m_master_time, m_error>>
    /\ UNCHANGED <<encVars, inputVars, dbVars>>

\* _convert, after the loop: open(target, "w") and write
MainConvertWrite ==
    /\ m_pc = "loop"
    /\ m_i > Len(project_data)
    /\ m_file' = [opened |-> TRUE, text |-> JoinLines(m_lines)]
    /\ m_pc' = "done"
    /\ UNCHANGED <<m_i, m_lines, m_index, m_master_time, m_error>>
    /\ UNCHANGED <<encVars, inputVars, dbVars>>

(***************************************************************************)
(* ms_photos.py: MsPhotosDb.export_edl and MsPhotosDb._convert.            *)
(***************************************************************************)
MsPhotosDb_header(name) ==
    << <<"T", "I", "T", "L", "E", ":", " ">> \o name,
       <<"F", "C", "M", ":", " ", "N", "O", "N", "-", "D", "R", "O", "P", " ",
         "F", "R", "A", "M", "E">>,
       <<>> >>

\* the bug of printing record-out before record-in
MsPhotosDb_times_Swapped(rate, card, master_time) ==
    MsPhotosDb_nano100_to_time(rate, card.idealAssetStartTime) \o <<" ">>
    \o MsPhotosDb_nano100_to_time(rate, TickAdd(card.idealAssetStartTime, card.idealDuration)) \o <<" ">>
    \o MsPhotosDb_nano100_to_time(rate, TickAdd(master_time, card.idealDuration)) \o <<" ">>
    \o MsPhotosDb_nano100_to_time(rate, master_time)

MsPhotosDb_times(rate, card, master_time) ==
    MsPhotosDb_nano100_to_time(rate, card.idealAssetStartTime) \o <<" ">>
    \o MsPhotosDb_nano100_to_time(rate, TickAdd(card.idealAssetStartTime, card.idealDuration)) \o <<" ">>
    \o MsPhotosDb_nano100_to_time(rate, master_time) \o <<" ">>
    \o MsPhotosDb_nano100_to_time(rate, TickAdd(master_time, card.idealDuration))

MsPhotosDb_block(rate, index, card, master_time) ==
    << FormatZeroPad(index, 3) \o <<" ", " ", "A", "X", " ", " ", "V", " ", " ", "C", " ", " ">>
           \o MsPhotosDb_times(rate, card, master_time),
       FormatZeroPad(index, 3) \o <<" ", " ", "A", "X", " ", " ", "A", " ", " ", "C", " ", " ">>
           \o MsPhotosDb_times(rate, card, master_time),
       <<"*", " ", "F", "R", "O", "M", " ", "C", "L", "I", "P", " ", "N", "A", "M", "E", ":", " ">>
           \o card.url,
       <<>> >>

DbExportEdl ==
    /\ d_pc = "generate"
    /\ IF project_name \notin store
       THEN d_pc' = "failed" /\ d_error' = "Project not found in database"
       ELSE d_pc' = "convert" /\ d_error' = d_error
    /\ UNCHANGED <<d_i, d_lines, d_index, d_master_time, d_file>>
    /\ UNCHANGED <<encVars, inputVars, mainVars>>

DbConvertBegin ==
    /\ d_pc = "convert"
    /\ d_lines' = MsPhotosDb_header(project_name)
    /\ d_index' = 1
    /\ d_master_time' = IntToTick(frame_rate)
    /\ d_i' = 1
    /\ d_pc' = "loop"
    /\ UNCHANGED <<d_file, d_error>>
    /\ UNCHANGED <<encVars, inputVars, mainVars>>

DbConvertCard ==
    /\ d_pc = "loop"
    /\ d_i <= Len(project_data)
    /\ LET card == project_data[d_i]
       IN  IF ~HasFields(card)
           THEN /\ d_pc' = "failed"
                /\ d_error' = "KeyError"
                /\ UNCHANGED <<d_i, d_lines, d_index, d_master_time>>
           ELSE /\ d_lines' = d_lines \o MsPhotosDb_block(frame_rate, d_index, card, d_master_time)
                /\ d_index' = d_index + 1
                /\ d_master_time' = TickAdd(d_master_time, card.idealDuration)
                /\ d_i' = d_i + 1
                /\ UNCHANGED <<d_pc, d_error>>
    /\ UNCHANGED d_file
    /\ UNCHANGED <<encVars, inputVars, mainVars>>

DbConvertWrite ==
    /\ d_pc = "loop"
    /\ d_i > Len(project_data)
    /\ d_file' = [opened |-> TRUE, text |-> JoinLines(d_lines)]
    /\ d_pc' = "done"
    /\ UNCHANGED <<d_i, d_lines, d_index, d_master_time, d_error>>
    /\ UNCHANGED <<encVars, inputVars, mainVars>>

(***************************************************************************)
(* The export: both implementations run on the same store and request.     *)
(***************************************************************************)
IdleEncoder == nanos = Tick(0, 0) /\ ret_main = <<>> /\ ret_db = <<>>

MainStart(pc) ==
    /\ m_pc = pc /\ m_i = 0 /\ m_lines = NoLines /\ m_index = 0
    /\ m_master_time = Tick(0, 0) /\ m_file = NoFile /\ m_error = ""

DbStart(pc) ==
    /\ d_pc = pc /\ d_i = 0 /\ d_lines = NoLines /\ d_index = 0
    /\ d_master_time = Tick(0, 0) /\ d_file = NoFile /\ d_error = ""

Init ==
    /\ IdleEncoder
    /\ frame_rate \in FrameRates
    /\ store = {Demo}
    /\ project_name \in Names
    /\ project_data \in SeqsUpTo(Cards, MaxCards)
    /\ MainStart("generate")
    /\ DbStart("generate")

Next ==
    \/ MainGenerate
    \/ MainConvertBegin
    \/ MainConvertCard
    \/ MainConvertWrite
    \/ DbExportEdl
    \/ DbConvertBegin
    \/ DbConvertCard
    \/ DbConvertWrite

Spec == Init /\ [][Next]_vars

(***************************************************************************)
(* The encoder alone: one call of each _nano100_to_time on one argument.   *)
(***************************************************************************)
EncodeMain ==
    /\ ret_main = <<>>
    /\ ret_main' = main_nano100_to_time(nanos)
    /\ UNCHANGED <<nanos, ret_db, inputVars, mainVars, dbVars>>

EncodeDb ==
    /\ ret_db = <<>>
    /\ ret_db' = MsPhotosDb_nano100_to_time(frame_rate, nanos)
    /\ UNCHANGED <<nanos, ret_main, inputVars, mainVars, dbVars>>

InitEncode ==
    /\ nanos \in {Tick(q, r) : q \in EncodeSeconds, r \in EncodeRemainders}
    /\ ret_main = <<>>
    /\ ret_db = <<>>
    /\ frame_rate \in 1..MaxFrameRate
    /\ store = {}
    /\ project_name = Demo
    /\ project_data = <<>>
    /\ MainStart("idle")
    /\ DbStart("idle")

NextEncode == EncodeMain \/ EncodeDb

SpecEncode == InitEncode /\ [][NextEncode]_vars

(***************************************************************************)
(* Vocabulary of the properties.                                           *)
(***************************************************************************)
IsDigit(c) == c \in {"0", "1", "2", "3", "4", "5", "6", "7", "8", "9"}

DigitValue(c) == CHOOSE d \in 0..9 : DigitChar(d) = c

RECURSIVE ParseNat(_)
ParseNat(str) ==
    IF str = <<>> THEN 0
    ELSE 10 * ParseNat(SubSeq(str, 1, Len(str) - 1)) + DigitValue(str[Len(str)])

TwoDigits(n) == <<DigitChar(n \div 10), DigitChar(n % 10)>>

StartsWith(str, prefix) ==
    Len(str) >= Len(prefix) /\ SubSeq(str, 1, Len(prefix)) = prefix

EndsWith(str, suffix) ==
    Len(str) >= Len(suffix)
    /\ SubSeq(str, Len(str) - Len(suffix) + 1, Len(str)) = suffix

\* \d{2,}:\d{2}:\d{2}:\d{2}
MatchesTimecode(str) ==
    LET n == Len(str)
    IN  /\ n >= 11
        /\ \A i \in 1..(n - 9) : IsDigit(str[i])
        /\ \A i \in {n - 8, n - 5, n - 2} : str[i] = ":"
        /\ \A i \in {n - 7, n - 6, n - 4, n - 3, n - 1, n} : IsDigit(str[i])

\* lines in a text: one more than its line breaks
LineCount(text) == 1 + Cardinality({i \in 1..Len(text) : text[i] = "\n"})

\* the four lines of the block of entry k
VideoLine(lines, k) == lines[4 * k]
AudioLine(lines, k) == lines[4 * k + 1]
ClipLine(lines, k) == lines[4 * k + 2]
BlankLine(lines, k) == lines[4 * k + 3]

\* d1 + ... + dk of the first k cards
RECURSIVE SumDurations(_, _)
SumDurations(cards, k) ==
    IF k = 0 THEN Tick(0, 0)
    ELSE TickAdd(SumDurations(cards, k - 1), cards[k].idealDuration)

InConvert(pc) == pc \in {"loop", "done"}

Finished(pc) == pc \in {"done", "failed"}

LinesAndIndices(pc, i, lines, index, file) ==
    /\ InConvert(pc) =>
         /\ Len(lines) = 3 + 4 * (i - 1)
         /\ index = i
         /\ \A k \in 1..(i - 1) :
              /\ ParseNat(SubSeq(VideoLine(lines, k), 1, 3)) = k
              /\ ParseNat(SubSeq(AudioLine(lines, k), 1, 3)) = k
    /\ pc = "done" =>
         /\ i - 1 = Len(project_data)
         /\ LineCount(file.text) = 3 + 4 * Len(project_data)

(***************************************************************************)
(* C1.  Converting N entries gives 3 + 4N lines (3 for N = 0), and the     *)
(* event lines of the k-th entry print the index k: after k - 1 entries    *)
(* the line list holds 3 + 4(k - 1) lines and the index is k; the written  *)
(* file holds 3 + 4N lines.                                                *)
(***************************************************************************)
C1_LineCount ==
    /\ LinesAndIndices(m_pc, m_i, m_lines, m_index, m_file)
    /\ LinesAndIndices(d_pc, d_i, d_lines, d_index, d_file)

C1_Witness ==
    /\ m_pc = "done" /\ d_pc = "done"
    /\ Len(project_data) = 2
    /\ Len(m_lines) = 11

(***************************************************************************)
(* C2.  The record position starts at the number frame_rate, taken as a    *)
(* tick count, and grows by each duration: the event line of entry k ends  *)
(* with encode(frame_rate + d1 + ... + d(k-1)), a space, and               *)
(* encode(frame_rate + d1 + ... + dk).                                     *)
(***************************************************************************)
C2_RecordPosition ==
    /\ InConvert(m_pc) =>
         /\ m_master_time = TickAdd(IntToTick(FRAME_RATE), SumDurations(project_data, m_i - 1))
         /\ \A k \in 1..(m_i - 1) :
              EndsWith(VideoLine(m_lines, k),
                  main_nano100_to_time(
                      TickAdd(IntToTick(FRAME_RATE), SumDurations(project_data, k - 1)))
                  \o <<" ">>
                  \o main_nano100_to_time(
                      TickAdd(IntToTick(FRAME_RATE), SumDurations(project_data, k))))
    /\ InConvert(d_pc) =>
         /\ d_master_time = TickAdd(IntToTick(frame_rate), SumDurations(project_data, d_i - 1))
         /\ \A k \in 1..(d_i - 1) :
              EndsWith(VideoLine(d_lines, k),
                  MsPhotosDb_nano100_to_time(frame_rate,
                      TickAdd(IntToTick(frame_rate), SumDurations(project_data, k - 1)))
                  \o <<" ">>
                  \o MsPhotosDb_nano100_to_time(frame_rate,
                      TickAdd(IntToTick(frame_rate), SumDurations(project_data, k))))

C2_Witness ==
    /\ m_pc = "done" /\ d_pc = "done"
    /\ Len(project_data) = 2
    /\ project_data[1].idealDuration = Tick(1, 0)
    /\ project_data[2].idealDuration = Tick(0, 333333)
    /\ m_master_time = Tick(1, 333363)

(***************************************************************************)
(* C3.  Every encoded tick count t >= 0, also one of 24 hours or more,     *)
(* has the shape \d{2,}:\d{2}:\d{2}:\d{2}.                                 *)
(***************************************************************************)
C3_TimecodeShape ==
    /\ ret_main # <<>> => MatchesTimecode(ret_main)
    /\ ret_db # <<>> => MatchesTimecode(ret_db)

WholeSecondsCode(secs) ==
    TwoDigits(secs \div 3600) \o <<":">> \o TwoDigits((secs \div 60) % 60) \o <<":">>
    \o TwoDigits(secs % 60) \o <<":", "0", "0">>

(***************************************************************************)
(* C4.  A whole number s < 86400 of seconds encodes, at any frame rate, as *)
(* the two-digit hours, minutes and seconds of s and the frame field 00;   *)
(* 0 ticks give 00:00:00:00 and one second gives 00:00:01:00.              *)
(***************************************************************************)
C4_WholeSeconds ==
    /\ (nanos.r = 0 /\ nanos.q \in 0..(SecondsPerDay - 1)) =>
         /\ ret_main # <<>> => ret_main = WholeSecondsCode(nanos.q)
         /\ ret_db # <<>> => ret_db = WholeSecondsCode(nanos.q)
    /\ (nanos = Tick(0, 0) /\ ret_db # <<>>) =>
         ret_db = <<"0", "0", ":", "0", "0", ":", "0", "0", ":", "0", "0">>
    /\ (nanos = Tick(1, 0) /\ ret_main # <<>>) =>
         ret_main = <<"0", "0", ":", "0", "0", ":", "0", "1", ":", "0", "0">>

C4_Witness ==
    /\ nanos = Tick(35999, 0)
    /\ frame_rate = 99
    /\ ret_db = <<"0", "9", ":", "5", "9", ":", "5", "9", ":", "0", "0">>
    /\ ret_main # <<>>

FailFast(pc, i, error, file) ==
    /\ (pc = "failed" /\ error = "KeyError") =>
         /\ ~HasFields(project_data[i])
         /\ \A j \in 1..(i - 1) : HasFields(project_data[j])
    /\ pc = "failed" => file = NoFile
    /\ file.opened =>
         /\ pc = "done"
         /\ i = Len(project_data) + 1
         /\ \A j \in 1..Len(project_data) : HasFields(project_data[j])

(***************************************************************************)
(* C5.  An entry lacking its source path, start time or duration stops the *)
(* conversion at the first such entry, and the target is opened and        *)
(* written only after every entry has been processed: no partial output.   *)
(***************************************************************************)
C5_NoPartialOutput ==
    /\ FailFast(m_pc, m_i, m_error, m_file)
    /\ FailFast(d_pc, d_i, d_error, d_file)

C5_Witness ==
    /\ m_pc = "failed" /\ m_error = "KeyError" /\ m_i = 2 /\ Len(m_lines) = 7
    /\ d_pc = "failed" /\ d_error = "KeyError"
    /\ ~m_file.opened /\ ~d_file.opened

NegativeEntry(card) ==
    /\ HasFields(card)
    /\ TickIsNegative(card.idealDuration) \/ TickIsNegative(card.idealAssetStartTime)

NegativeRejected(pc, i, file) ==
    /\ InConvert(pc) => \A j \in 1..(i - 1) : ~NegativeEntry(project_data[j])
    /\ file.opened => \A j \in 1..Len(project_data) : ~NegativeEntry(project_data[j])

(***************************************************************************)
(* C6.  An entry with a negative duration or start is rejected: no event   *)
(* lines are made from it and no output is written.                        *)
(***************************************************************************)
C6_NegativeRejected ==
    /\ NegativeRejected(m_pc, m_i, m_file)
    /\ NegativeRejected(d_pc, d_i, d_file)

NotFound(pc, lines, error, file) ==
    project_name \notin store =>
        /\ pc \in {"generate", "failed"}
        /\ pc = "failed" => error = "Project not found in database"
        /\ lines = NoLines
        /\ file = NoFile

(***************************************************************************)
(* C7.  A lookup of a name with no record in the store fails with the      *)
(* project-not-found error: _convert is not reached, no line is built and  *)
(* the target is not opened.                                               *)
(***************************************************************************)
C7_ProjectNotFound ==
    /\ NotFound(m_pc, m_lines, m_error, m_file)
    /\ NotFound(d_pc, d_lines, d_error, d_file)

C7_Witness ==
    /\ project_name = Other
    /\ m_pc = "failed" /\ d_pc = "failed"
    /\ Len(project_data) = 2

TrackAt(line) == line[10]

WithTrack(line, track) == [j \in 1..Len(line) |-> IF j = 10 THEN track ELSE line[j]]

BlockShape(lines, k, card, srcIn, srcOut) ==
    /\ StartsWith(VideoLine(lines, k),
           SubSeq(VideoLine(lines, k), 1, 3)
           \o <<" ", " ", "A", "X", " ", " ", "V", " ", " ", "C", " ", " ">>
           \o srcIn \o <<" ">> \o srcOut \o <<" ">>)
    /\ TrackAt(VideoLine(lines, k)) = "V"
    /\ TrackAt(AudioLine(lines, k)) = "A"
    /\ AudioLine(lines, k) = WithTrack(VideoLine(lines, k), "A")
    /\ ClipLine(lines, k)
         = <<"*", " ", "F", "R", "O", "M", " ", "C", "L", "I", "P", " ",
             "N", "A", "M", "E", ":", " ">> \o card.url
    /\ BlankLine(lines, k) = <<>>

(***************************************************************************)
(* C8.  The block of entry k is a video event line, an audio event line,   *)
(* the clip-name line of that entry's source path and a blank line; the    *)
(* audio line is the video line with track A in place of V, and the line   *)
(* starts with the index, AX, the track, C, source-in and source-out.      *)
(***************************************************************************)
C8_BlockOrder ==
    /\ InConvert(m_pc) =>
         \A k \in 1..(m_i - 1) :
            BlockShape(m_lines, k, project_data[k],
                main_nano100_to_time(project_data[k].idealAssetStartTime),
                main_nano100_to_time(TickAdd(project_data[k].idealAssetStartTime,
                                             project_data[k].idealDuration)))
    /\ InConvert(d_pc) =>
         \A k \in 1..(d_i - 1) :
            BlockShape(d_lines, k, project_data[k],
                MsPhotosDb_nano100_to_time(frame_rate, project_data[k].idealAssetStartTime),
                MsPhotosDb_nano100_to_time(frame_rate,
                    TickAdd(project_data[k].idealAssetStartTime,
                            project_data[k].idealDuration)))

C8_Witness ==
    /\ m_pc = "done" /\ d_pc = "done"
    /\ Len(project_data) = 2
    /\ project_data[1].url = <<"b">>
    /\ project_data[2].url = <<"a">>
    /\ ClipLine(m_lines, 2) # ClipLine(m_lines, 1)

FrameField(str) == ParseNat(SubSeq(str, Len(str) - 1, Len(str)))

(***************************************************************************)
(* C9.  For t >= 0 and a frame rate in 1..99 the frame field of encode(t)  *)
(* is floor(frame_rate * (t mod 10 000 000) / 10 000 000), so that it lies *)
(* in 0..frame_rate - 1.                                                   *)
(***************************************************************************)
C9_FrameIsFloor ==
    /\ ret_main # <<>> =>
         /\ FrameField(ret_main) = (FRAME_RATE * nanos.r) \div ns
         /\ FrameField(ret_main) \in 0..(FRAME_RATE - 1)
    /\ ret_db # <<>> =>
         /\ FrameField(ret_db) = (frame_rate * nanos.r) \div ns
         /\ FrameField(ret_db) \in 0..(frame_rate - 1)

(***************************************************************************)
(* C10.  With frame_rate = 30, main._convert and MsPhotosDb._convert go    *)
(* through the same states: at the same place of the same run they hold    *)
(* the same lines, index and record position, they write the same file,    *)
(* and one fails exactly when the other does, with the same error.         *)
(***************************************************************************)
C10_SameConversion ==
    frame_rate = FRAME_RATE =>
        /\ (m_pc = d_pc /\ m_i = d_i) =>
             /\ m_lines = d_lines
             /\ m_index = d_index
             /\ m_master_time = d_master_time
             /\ m_file = d_file
             /\ m_error = d_error
        /\ (Finished(m_pc) /\ Finished(d_pc)) => (m_pc = d_pc /\ m_i = d_i)

C10_Witness ==
    /\ frame_rate = FRAME_RATE
    /\ m_pc = "done" /\ d_pc = "done"
    /\ Len(project_data) = 2
    /\ project_data[1].idealDuration = Tick(86400, 0)
    /\ m_file.opened /\ m_file = d_file

====
